---- MODULE Spec2Model ----
(***************************************************************************)
(* ESP32Touch: per-pad button state machine and periodic callback          *)
(* dispatch (src/src/esp32_touch.cpp, src/src/esp32_touch.h).              *)
(*                                                                         *)
(* The static arrays s_pad_* are the state.  One action per public         *)
(* operation (configure_input, disableButton, disableAllButtons,           *)
(* calibrate_thresholds, begin), one for the filter hook filter_read_cb    *)
(* and one for a run of the timer handler dispatch_callbacks.  A callback  *)
(* is an opaque value: NoCb is the empty std::function, positive numbers   *)
(* are user functions.  What a tick invoked is recorded in `fired`.        *)
(***************************************************************************)
EXTENDS Integers, FiniteSets

(* ------------------------------ bounds -------------------------------- *)
\* number of touch pads modelled (TOUCH_PAD_MAX of the ESP-IDF driver)
NumPads == 2
\* calls of configure_input, disableButton and disableAllButtons in one
\* behaviour of Spec
MaxCalls == 2
\* the same, in one behaviour of SpecCalibrate and of SpecReconfigure
MaxSetupCalls == 3
\* the same, in one behaviour of SpecHold
MaxHoldCalls == 2
\* SpecHold: the last clock reading at which the application still calls the
\* driver and the samples still change; from then on only the ticker runs,
\* and a press it sees begin on its next run has 2000 ms of clock readings left
LastChange == 20

(* ------------------------- program constants -------------------------- *)
TOUCH_PAD_MAX == NumPads
Pads == 0 .. (TOUCH_PAD_MAX - 1)

\* enum INSTANTANEOUS_BUTTON_STATE
PRESSED == 0
NOT_PRESSED == 1

\* enum BUTTON_STATE
NO_PRESS == 0
SHORT_PRESSED == 1
MEDIUM_PRESSED == 2
LONG_PRESSED == 3
NUM_STATES_DONT_USE == 4
ButtonStates == NO_PRESS .. (NUM_STATES_DONT_USE - 1)

\* enum TRIGGER_MODE
RISE == 0
FALL == 1

\* BUTTON_THRESHOLD_TIMES_MS
SHORT_THRESHOLD_MS == 50
MEDIUM_THRESHOLD_MS == 300
LONG_THRESHOLD_MS == 2000

\* the map BUTTON_THRESHOLD_TIMES_MS, for the three classes it holds
BUTTON_THRESHOLD_TIMES_MS(buttonState) ==
    CASE buttonState = SHORT_PRESSED -> SHORT_THRESHOLD_MS
      [] buttonState = MEDIUM_PRESSED -> MEDIUM_THRESHOLD_MS
      [] buttonState = LONG_PRESSED -> LONG_THRESHOLD_MS

threshold_inactive == 0

\* the empty std::function (nullptr); user callbacks are the values 1, 2, ...
NoCb == 0

\* uint16_t holds 0 .. UInt16 - 1
UInt16 == 65536

(* ------------------------------ inputs -------------------------------- *)
\* Spec: the dispatch engine.  One user callback, one percentage and one
\* baseline (threshold 100), two filtered readings (80 pressed, 150 not).
Callbacks == {1}
Percents == {50}
ConfigStates == {SHORT_PRESSED, MEDIUM_PRESSED, LONG_PRESSED}
TriggerModes == {RISE, FALL}
Baselines == {201}
FilteredValues == {80, 150}
\* values of millis() at the runs of the timer handler.  From a press first
\* seen at 40 the elapsed times 50, 300 and 2000 are the three boundaries;
\* from one first seen at 20 they are 20, 70, 320, 2020, 2040.
ClockReadings == {20, 40, 90, 340, 2040, 2060}
\* input_number arguments: every pad, and the first index past the arrays
InputNumbers == 0 .. TOUCH_PAD_MAX

\* SpecCalibrate: the threshold arithmetic.  255 is the largest uint8_t,
\* 65535 the largest uint16_t reading.
CalPercents == {0, 50, 100, 255}
CalBaselines == {0, 201, 65535}

\* SpecReconfigure: repeated configure / disable of pad 0
ReconfigureNumbers == {0}
ReconfigureCallbacks == {1, 2}
ReconfigureStates == {SHORT_PRESSED}
ReconfigureModes == {RISE}

VARIABLES
    s_pad_threshold_percent,
    s_pad_enabled,
    s_pad_is_pressed,
    s_pad_filtered_value,
    s_pad_threshold,
    s_pad_callback,
    s_pad_state,
    s_pad_instantaneous_state,
    s_pad_initial_press_time,
    s_pad_trigger_mode,
    event_timer,      \* TRUE once begin() attached the ticker and the filter hook
    timeOfLastCallback_ms,
    now,              \* the last value millis() returned to the timer handler
    fired,            \* per pad: the callback the step just taken invoked, or NoCb
    error,            \* what the API call just made reported to its caller
    calls,            \* number of configure/disable calls made so far
    \* history, read by the properties only
    maxFired,         \* per pad: highest class a callback was invoked for since
                      \* the pad was last read not pressed (or disabled)
    fallFires,        \* per pad: callbacks invoked in FALL mode since the last
                      \* tick that saw the pad go from not pressed to pressed
    sawShort,         \* per pad: some tick since the pad was last read not
                      \* pressed computed timeDiff >= SHORT_THRESHOLD_MS
    lastCall,         \* the configure / disable call the step just taken
                      \* made, with its input_number; <<"dispatch_callbacks">>
                      \* after a run of the timer handler; else <<"none">>
    awaitRelease,     \* per pad: configure_input was called while the pad read
                      \* pressed, and no tick has read it not pressed since
    observed          \* per pad: a tick saw the pad go from not pressed to
                      \* pressed, and every tick since has read it pressed

vars == <<s_pad_threshold_percent, s_pad_enabled, s_pad_is_pressed,
          s_pad_filtered_value, s_pad_threshold, s_pad_callback, s_pad_state,
          s_pad_instantaneous_state, s_pad_initial_press_time,
          s_pad_trigger_mode, event_timer, timeOfLastCallback_ms, now, fired,
          error, calls, maxFired, fallFires, sawShort, lastCall, awaitRelease,
          observed>>

NoneFired == [i \in Pads |-> NoCb]

(* --------------------------- construction ----------------------------- *)
\* The arrays have static storage: zero-initialised, then the constructor
\* runs initializeButtons().  initializeButton() does not write
\* s_pad_threshold_percent, s_pad_filtered_value, s_pad_instantaneous_state,
\* s_pad_initial_press_time or s_pad_trigger_mode, which keep the zero
\* value: 0, 0, PRESSED, 0 and RISE.
Init ==
    /\ s_pad_threshold_percent = [i \in Pads |-> 0]
    /\ s_pad_enabled = [i \in Pads |-> FALSE]
    /\ s_pad_is_pressed = [i \in Pads |-> FALSE]
    /\ s_pad_filtered_value = [i \in Pads |-> 0]
    /\ s_pad_threshold = [i \in Pads |-> threshold_inactive]
    /\ s_pad_callback = [i \in Pads |-> [s \in ButtonStates |-> NoCb]]
    /\ s_pad_state = [i \in Pads |-> NO_PRESS]
    /\ s_pad_instantaneous_state = [i \in Pads |-> PRESSED]
    /\ s_pad_initial_press_time = [i \in Pads |-> 0]
    /\ s_pad_trigger_mode = [i \in Pads |-> RISE]
    /\ event_timer = FALSE
    /\ timeOfLastCallback_ms = 0
    /\ now = 0
    /\ fired = [i \in Pads |-> NoCb]
    /\ error = "None"
    /\ calls = 0
    /\ maxFired = [i \in Pads |-> NO_PRESS]
    /\ fallFires = [i \in Pads |-> 0]
    /\ sawShort = [i \in Pads |-> FALSE]
    /\ lastCall = <<"none">>
    /\ awaitRelease = [i \in Pads |-> FALSE]
    /\ observed = [i \in Pads |-> FALSE]

(* ----------------------------- disable -------------------------------- *)
\* the four stores of disableButton on pad p
DisabledEnabled(p) == [s_pad_enabled EXCEPT ![p] = FALSE]
DisabledIsPressed(p) == [s_pad_is_pressed EXCEPT ![p] = FALSE]
DisabledCallback(p) == [s_pad_callback EXCEPT ![p] = [s \in ButtonStates |-> NoCb]]
DisabledState(p) == [s_pad_state EXCEPT ![p] = NO_PRESS]

disableButton(input_number) ==
    /\ s_pad_enabled' = DisabledEnabled(input_number)
    /\ s_pad_is_pressed' = DisabledIsPressed(input_number)
    /\ s_pad_callback' = DisabledCallback(input_number)
    /\ s_pad_state' = DisabledState(input_number)
    /\ error' = "None"
    /\ calls' = calls + 1
    /\ UNCHANGED <<s_pad_threshold_percent, s_pad_filtered_value, s_pad_threshold,
                   s_pad_instantaneous_state, s_pad_initial_press_time,
                   s_pad_trigger_mode, event_timer, now>>
    /\ fired' = NoneFired
    /\ maxFired' = [maxFired EXCEPT ![input_number] = NO_PRESS]
    /\ lastCall' = <<"disableButton", input_number>>
    /\ UNCHANGED <<fallFires, sawShort, awaitRelease, observed,
                   timeOfLastCallback_ms>>

disableAllButtons ==
    /\ s_pad_enabled' = [i \in Pads |-> DisabledEnabled(i)[i]]
    /\ s_pad_is_pressed' = [i \in Pads |-> DisabledIsPressed(i)[i]]
    /\ s_pad_callback' = [i \in Pads |-> DisabledCallback(i)[i]]
    /\ s_pad_state' = [i \in Pads |-> DisabledState(i)[i]]
    /\ error' = "None"
    /\ calls' = calls + 1
    /\ UNCHANGED <<s_pad_threshold_percent, s_pad_filtered_value, s_pad_threshold,
                   s_pad_instantaneous_state, s_pad_initial_press_time,
                   s_pad_trigger_mode, event_timer, now>>
    /\ fired' = NoneFired
    /\ maxFired' = [i \in Pads |-> NO_PRESS]
    /\ lastCall' = <<"disableAllButtons">>
    /\ UNCHANGED <<fallFires, sawShort, awaitRelease, observed,
                   timeOfLastCallback_ms>>

(* ---------------------------- configure ------------------------------- *)
\* the five stores of configure_input, landing on element p of each array
ConfiguredEnabled(p) == [s_pad_enabled EXCEPT ![p] = TRUE]

ConfiguredPercent(p, threshold_percent) ==
    [s_pad_threshold_percent EXCEPT ![p] = threshold_percent]

\* a store that rebuilds the pad's whole row of callbacks
ConfiguredCallbackClearing(p, callback, buttonState) ==
    [s_pad_callback EXCEPT
        ![p] = [s \in ButtonStates |-> IF s = buttonState THEN callback ELSE NoCb]]

ConfiguredCallback(p, callback, buttonState) ==
    [s_pad_callback EXCEPT ![p][buttonState] = callback]

ConfiguredState(p) == [s_pad_state EXCEPT ![p] = NO_PRESS]

ConfiguredMode(p, edgeTrigger) == [s_pad_trigger_mode EXCEPT ![p] = edgeTrigger]

ConfigureStores(p, threshold_percent, callback, buttonState, edgeTrigger) ==
    /\ s_pad_enabled' = ConfiguredEnabled(p)
    /\ s_pad_threshold_percent' = ConfiguredPercent(p, threshold_percent)
    /\ s_pad_callback' = ConfiguredCallback(p, callback, buttonState)
    /\ s_pad_state' = ConfiguredState(p)
    /\ s_pad_trigger_mode' = ConfiguredMode(p, edgeTrigger)

\* configure_input does not test input_number.  With input_number outside
\* 0..TOUCH_PAD_MAX-1 the five stores go past the ends of the arrays
\* (undefined behaviour): they either miss the driver's state or land on the
\* elements of some pad.  In neither case is anything reported to the caller.
\* The definition takes five arguments: waitForRelease, the sixth of the
\* declaration, is not among them.
configure_input(input_number, threshold_percent, callback, buttonState, edgeTrigger) ==
    /\ IF input_number \in Pads
         THEN ConfigureStores(input_number, threshold_percent, callback,
                              buttonState, edgeTrigger)
         ELSE \/ UNCHANGED <<s_pad_enabled, s_pad_threshold_percent, s_pad_callback,
                             s_pad_state, s_pad_trigger_mode>>
              \/ \E victim \in Pads :
                    ConfigureStores(victim, threshold_percent, callback,
                                    buttonState, edgeTrigger)
    /\ error' = "None"
    /\ calls' = calls + 1
    /\ UNCHANGED <<s_pad_is_pressed, s_pad_filtered_value, s_pad_threshold,
                   s_pad_instantaneous_state, s_pad_initial_press_time,
                   event_timer, now>>
    /\ fired' = NoneFired
    /\ lastCall' = <<"configure_input", input_number>>
    /\ awaitRelease' =
          [i \in Pads |->
             IF /\ i = input_number
                /\ s_pad_filtered_value[i] < s_pad_threshold[i]
               THEN TRUE ELSE awaitRelease[i]]
    /\ UNCHANGED <<maxFired, fallFires, sawShort, observed,
                   timeOfLastCallback_ms>>

(* ---------------------------- calibrate ------------------------------- *)
\* uint16_t: the 16-bit product a narrower multiplication would give
ThresholdOfNarrow(touch_value, threshold_percent) ==
    (((touch_value * threshold_percent) % UInt16) \div 100) % UInt16

\* static_cast<uint32_t>(touch_value) * s_pad_threshold_percent[i] / 100,
\* stored in a uint16_t
ThresholdOf(touch_value, threshold_percent) ==
    ((touch_value * threshold_percent) \div 100) % UInt16

\* the thresholds after calibrate_thresholds read touch_value[i] for pad i
Calibrated(thresholds, enabled, percents, touch_value) ==
    [i \in Pads |-> IF enabled[i]
                      THEN ThresholdOf(touch_value[i], percents[i])
                      ELSE thresholds[i]]

calibrate_thresholds(touch_value) ==
    /\ s_pad_threshold' = Calibrated(s_pad_threshold, s_pad_enabled,
                                     s_pad_threshold_percent, touch_value)
    /\ error' = "None"
    /\ UNCHANGED <<s_pad_threshold_percent, s_pad_enabled, s_pad_is_pressed,
                   s_pad_filtered_value, s_pad_callback, s_pad_state,
                   s_pad_instantaneous_state, s_pad_initial_press_time,
                   s_pad_trigger_mode, event_timer, now, calls>>
    /\ fired' = NoneFired
    /\ lastCall' = <<"none">>
    /\ UNCHANGED <<maxFired, fallFires, sawShort, awaitRelease, observed,
                   timeOfLastCallback_ms>>

\* begin(): start the filter and its hook, calibrate, attach the ticker
begin(touch_value) ==
    /\ s_pad_threshold' = Calibrated(s_pad_threshold, s_pad_enabled,
                                     s_pad_threshold_percent, touch_value)
    /\ event_timer' = TRUE
    /\ error' = "None"
    /\ UNCHANGED <<s_pad_threshold_percent, s_pad_enabled, s_pad_is_pressed,
                   s_pad_filtered_value, s_pad_callback, s_pad_state,
                   s_pad_instantaneous_state, s_pad_initial_press_time,
                   s_pad_trigger_mode, now, calls>>
    /\ fired' = NoneFired
    /\ lastCall' = <<"none">>
    /\ UNCHANGED <<maxFired, fallFires, sawShort, awaitRelease, observed,
                   timeOfLastCallback_ms>>

(* ----------------------------- sampler -------------------------------- *)
\* the filter hook, installed by begin()
filter_read_cb(filtered_value) ==
    /\ event_timer
    /\ filtered_value # s_pad_filtered_value
    /\ s_pad_filtered_value' = filtered_value
    /\ UNCHANGED <<s_pad_threshold_percent, s_pad_enabled, s_pad_is_pressed,
                   s_pad_threshold, s_pad_callback, s_pad_state,
                   s_pad_instantaneous_state, s_pad_initial_press_time,
                   s_pad_trigger_mode, event_timer, now, error, calls>>
    /\ fired' = NoneFired
    /\ lastCall' = <<"none">>
    /\ UNCHANGED <<maxFired, fallFires, sawShort, awaitRelease, observed,
                   timeOfLastCallback_ms>>

(* ------------------------- button state machine ----------------------- *)
\* a comparison with <= : a sample equal to the threshold reads pressed
getInstantaneousButtonStateInclusive(touch_pin) ==
    IF s_pad_filtered_value[touch_pin] <= s_pad_threshold[touch_pin]
      THEN PRESSED ELSE NOT_PRESSED

getInstantaneousButtonState(touch_pin) ==
    IF s_pad_filtered_value[touch_pin] < s_pad_threshold[touch_pin]
      THEN PRESSED ELSE NOT_PRESSED

\* a chain that compares with > : a boundary is reached one millisecond late
ClassOfExclusive(oldState, timeDiff) ==
    IF timeDiff > LONG_THRESHOLD_MS THEN LONG_PRESSED
    ELSE IF timeDiff > MEDIUM_THRESHOLD_MS THEN MEDIUM_PRESSED
    ELSE IF timeDiff > SHORT_THRESHOLD_MS THEN SHORT_PRESSED
    ELSE oldState

\* a chain that tests the boundaries lowest first
ClassOfLowestFirst(oldState, timeDiff) ==
    IF timeDiff >= SHORT_THRESHOLD_MS THEN SHORT_PRESSED
    ELSE IF timeDiff >= MEDIUM_THRESHOLD_MS THEN MEDIUM_PRESSED
    ELSE IF timeDiff >= LONG_THRESHOLD_MS THEN LONG_PRESSED
    ELSE oldState

\* a chain with a final else that puts a pressed pad in SHORT_PRESSED at once
ClassOfFloor(oldState, timeDiff) ==
    IF timeDiff >= LONG_THRESHOLD_MS THEN LONG_PRESSED
    ELSE IF timeDiff >= MEDIUM_THRESHOLD_MS THEN MEDIUM_PRESSED
    ELSE IF timeDiff >= SHORT_THRESHOLD_MS THEN SHORT_PRESSED
    ELSE IF oldState = NO_PRESS THEN SHORT_PRESSED
    ELSE oldState

\* the if / else-if chain on timeDiff; no branch taken leaves the state as it is
ClassOf(oldState, timeDiff) ==
    IF timeDiff >= LONG_THRESHOLD_MS THEN LONG_PRESSED
    ELSE IF timeDiff >= MEDIUM_THRESHOLD_MS THEN MEDIUM_PRESSED
    ELSE IF timeDiff >= SHORT_THRESHOLD_MS THEN SHORT_PRESSED
    ELSE oldState

\* updateButtonState(touch_pin) with millis() = t: the new values of
\* s_pad_instantaneous_state, s_pad_initial_press_time and s_pad_state
UpdatedInstantaneous(touch_pin) == getInstantaneousButtonState(touch_pin)

UpdatedPressTime(touch_pin, t) ==
    IF /\ getInstantaneousButtonState(touch_pin) = PRESSED
       /\ s_pad_instantaneous_state[touch_pin] = NOT_PRESSED
      THEN t
      ELSE s_pad_initial_press_time[touch_pin]

\* an update that runs the chain on the tick that sees the press begin as well
UpdatedStateEager(touch_pin, t) ==
    IF getInstantaneousButtonState(touch_pin) = PRESSED
      THEN ClassOf(s_pad_state[touch_pin],
                   t - s_pad_initial_press_time[touch_pin])
      ELSE NO_PRESS

\* an update that ends a press only on the second sample read not pressed
UpdatedStateHold(touch_pin, t) ==
    IF getInstantaneousButtonState(touch_pin) = PRESSED
      THEN IF s_pad_instantaneous_state[touch_pin] = PRESSED
             THEN ClassOf(s_pad_state[touch_pin],
                          t - s_pad_initial_press_time[touch_pin])
             ELSE s_pad_state[touch_pin]
      ELSE IF s_pad_instantaneous_state[touch_pin] = PRESSED
             THEN s_pad_state[touch_pin]
             ELSE NO_PRESS

UpdatedState(touch_pin, t) ==
    IF getInstantaneousButtonState(touch_pin) = PRESSED
      THEN IF s_pad_instantaneous_state[touch_pin] = PRESSED
             THEN ClassOf(s_pad_state[touch_pin],
                          t - s_pad_initial_press_time[touch_pin])
             ELSE s_pad_state[touch_pin]
      ELSE NO_PRESS

(* ------------------------------ dispatch ------------------------------ *)
\* getTimeSinceLastCallback_ms() is declared and documented in the header
\* ("the time in ms since the last callback function was triggered ... Will
\* return -1 if a callback has never been triggered"); it has no definition.
\* This is the documented result, computed from the member
\* timeOfLastCallback_ms (initialised to 0) at the clock reading now.
getTimeSinceLastCallback_ms ==
    IF timeOfLastCallback_ms = 0 THEN -1 ELSE now - timeOfLastCallback_ms

\* a dispatch that does not compare the state with the one before the update
SelectedCallbackRepeat(edgeTrigger, lastButtonState, newState, callbacks) ==
    IF edgeTrigger = RISE /\ newState # NO_PRESS
      THEN callbacks[newState]
    ELSE IF edgeTrigger = FALL /\ newState = NO_PRESS
      THEN IF lastButtonState # newState THEN callbacks[lastButtonState] ELSE NoCb
    ELSE NoCb

\* a FALL branch that looks the callback up under the state after the update
SelectedCallbackFallNew(edgeTrigger, lastButtonState, newState, callbacks) ==
    IF edgeTrigger = RISE /\ newState # NO_PRESS
      THEN IF lastButtonState # newState THEN callbacks[newState] ELSE NoCb
    ELSE IF edgeTrigger = FALL /\ newState = NO_PRESS
      THEN IF lastButtonState # newState THEN callbacks[newState] ELSE NoCb
    ELSE NoCb

\* a FALL branch taken on every change of state, not only on a release
SelectedCallbackFallAnyChange(edgeTrigger, lastButtonState, newState, callbacks) ==
    IF edgeTrigger = RISE /\ newState # NO_PRESS
      THEN IF lastButtonState # newState THEN callbacks[newState] ELSE NoCb
    ELSE IF edgeTrigger = FALL
      THEN IF lastButtonState # newState THEN callbacks[lastButtonState] ELSE NoCb
    ELSE NoCb

\* the callback dispatch_callbacks invokes for a pad whose state went from
\* lastButtonState to newState (NoCb: none is invoked)
SelectedCallback(edgeTrigger, lastButtonState, newState, callbacks) ==
    IF edgeTrigger = RISE /\ newState # NO_PRESS
      THEN IF lastButtonState # newState THEN callbacks[newState] ELSE NoCb
    ELSE IF edgeTrigger = FALL /\ newState = NO_PRESS
      THEN IF lastButtonState # newState THEN callbacks[lastButtonState] ELSE NoCb
    ELSE NoCb

\* what one iteration of the loop of dispatch_callbacks invokes for pad i
FiredBy(i, t) ==
    IF s_pad_enabled[i]
      THEN SelectedCallback(s_pad_trigger_mode[i], s_pad_state[i],
                            UpdatedState(i, t), s_pad_callback[i])
      ELSE NoCb

Max(a, b) == IF a >= b THEN a ELSE b

\* a timer handler whose loop updates the state of every pad, enabled or not
dispatch_callbacksUnguarded(t) ==
    /\ event_timer
    /\ t > now
    /\ now' = t
    /\ s_pad_instantaneous_state' =
          [i \in Pads |-> UpdatedInstantaneous(i)]
    /\ s_pad_initial_press_time' =
          [i \in Pads |-> UpdatedPressTime(i, t)]
    /\ s_pad_state' =
          [i \in Pads |-> UpdatedState(i, t)]
    /\ fired' = [i \in Pads |-> FiredBy(i, t)]
    /\ UNCHANGED <<s_pad_threshold_percent, s_pad_enabled, s_pad_is_pressed,
                   s_pad_filtered_value, s_pad_threshold, s_pad_callback,
                   s_pad_trigger_mode, event_timer, timeOfLastCallback_ms,
                   error, calls>>
    /\ maxFired' =
          [i \in Pads |->
             IF ~s_pad_enabled[i] THEN maxFired[i]
             ELSE IF UpdatedInstantaneous(i) = NOT_PRESSED THEN NO_PRESS
             ELSE IF FiredBy(i, t) # NoCb THEN Max(maxFired[i], UpdatedState(i, t))
             ELSE maxFired[i]]
    /\ fallFires' =
          [i \in Pads |->
             IF ~s_pad_enabled[i] THEN fallFires[i]
             ELSE IF /\ UpdatedInstantaneous(i) = PRESSED
                     /\ s_pad_instantaneous_state[i] = NOT_PRESSED THEN 0
             ELSE IF s_pad_trigger_mode[i] = FALL /\ FiredBy(i, t) # NoCb
               THEN fallFires[i] + 1
             ELSE fallFires[i]]
    /\ sawShort' =
          [i \in Pads |->
             IF ~s_pad_enabled[i] THEN sawShort[i]
             ELSE IF UpdatedInstantaneous(i) = NOT_PRESSED THEN FALSE
             ELSE IF /\ s_pad_instantaneous_state[i] = PRESSED
                     /\ t - s_pad_initial_press_time[i] >= SHORT_THRESHOLD_MS
               THEN TRUE
             ELSE sawShort[i]]
    /\ lastCall' = <<"dispatch_callbacks">>
    /\ awaitRelease' =
          [i \in Pads |->
             IF s_pad_enabled[i] /\ UpdatedInstantaneous(i) = NOT_PRESSED
               THEN FALSE ELSE awaitRelease[i]]
    /\ observed' =
          [i \in Pads |->
             IF ~s_pad_enabled[i] THEN FALSE
             ELSE IF UpdatedInstantaneous(i) = NOT_PRESSED THEN FALSE
             ELSE IF s_pad_instantaneous_state[i] = NOT_PRESSED THEN TRUE
             ELSE observed[i]]

\* one run of the timer handler, millis() reading t
dispatch_callbacks(t) ==
    /\ event_timer
    /\ t > now
    /\ now' = t
    /\ s_pad_instantaneous_state' =
          [i \in Pads |-> IF s_pad_enabled[i] THEN UpdatedInstantaneous(i)
                                              ELSE s_pad_instantaneous_state[i]]
    /\ s_pad_initial_press_time' =
          [i \in Pads |-> IF s_pad_enabled[i] THEN UpdatedPressTime(i, t)
                                              ELSE s_pad_initial_press_time[i]]
    /\ s_pad_state' =
          [i \in Pads |-> IF s_pad_enabled[i] THEN UpdatedState(i, t)
                                              ELSE s_pad_state[i]]
    /\ fired' = [i \in Pads |-> FiredBy(i, t)]
    /\ UNCHANGED <<s_pad_threshold_percent, s_pad_enabled, s_pad_is_pressed,
                   s_pad_filtered_value, s_pad_threshold, s_pad_callback,
                   s_pad_trigger_mode, event_timer, timeOfLastCallback_ms,
                   error, calls>>
    /\ maxFired' =
          [i \in Pads |->
             IF ~s_pad_enabled[i] THEN maxFired[i]
             ELSE IF UpdatedInstantaneous(i) = NOT_PRESSED THEN NO_PRESS
             ELSE IF FiredBy(i, t) # NoCb THEN Max(maxFired[i], UpdatedState(i, t))
             ELSE maxFired[i]]
    /\ fallFires' =
          [i \in Pads |->
             IF ~s_pad_enabled[i] THEN fallFires[i]
             ELSE IF /\ UpdatedInstantaneous(i) = PRESSED
                     /\ s_pad_instantaneous_state[i] = NOT_PRESSED THEN 0
             ELSE IF s_pad_trigger_mode[i] = FALL /\ FiredBy(i, t) # NoCb
               THEN fallFires[i] + 1
             ELSE fallFires[i]]
    /\ sawShort' =
          [i \in Pads |->
             IF ~s_pad_enabled[i] THEN sawShort[i]
             ELSE IF UpdatedInstantaneous(i) = NOT_PRESSED THEN FALSE
             ELSE IF /\ s_pad_instantaneous_state[i] = PRESSED
                     /\ t - s_pad_initial_press_time[i] >= SHORT_THRESHOLD_MS
               THEN TRUE
             ELSE sawShort[i]]
    /\ lastCall' = <<"dispatch_callbacks">>
    /\ awaitRelease' =
          [i \in Pads |->
             IF s_pad_enabled[i] /\ UpdatedInstantaneous(i) = NOT_PRESSED
               THEN FALSE ELSE awaitRelease[i]]
    /\ observed' =
          [i \in Pads |->
             IF ~s_pad_enabled[i] THEN FALSE
             ELSE IF UpdatedInstantaneous(i) = NOT_PRESSED THEN FALSE
             ELSE IF s_pad_instantaneous_state[i] = NOT_PRESSED THEN TRUE
             ELSE observed[i]]

(* --------------------------- specifications --------------------------- *)
\* the driver under its API, the sampler and the ticker
Next ==
    \/ calls < MaxCalls /\ \E p \in Pads : disableButton(p)
    \/ calls < MaxCalls /\ disableAllButtons
    \/ /\ calls < MaxCalls
       /\ \E n \in InputNumbers, pc \in Percents, cb \in Callbacks \cup {NoCb},
             bs \in ConfigStates, m \in TriggerModes :
             configure_input(n, pc, cb, bs, m)
    \/ \E tv \in [Pads -> Baselines] : calibrate_thresholds(tv)
    \/ \E tv \in [Pads -> Baselines] : begin(tv)
    \/ \E fv \in [Pads -> FilteredValues] : filter_read_cb(fv)
    \/ \E t \in ClockReadings : dispatch_callbacks(t)

Spec == Init /\ [][Next]_vars

\* configuration and calibration alone, over the whole range of the inputs
NextCalibrate ==
    \/ calls < MaxSetupCalls /\ \E p \in Pads : disableButton(p)
    \/ /\ calls < MaxSetupCalls
       /\ \E n \in Pads, pc \in CalPercents :
             configure_input(n, pc, NoCb, SHORT_PRESSED, RISE)
    \/ \E tv \in [Pads -> CalBaselines] : calibrate_thresholds(tv)

SpecCalibrate == Init /\ [][NextCalibrate]_vars

\* one pad configured, disabled and configured again, with the ticker running
NextReconfigure ==
    \/ calls < MaxSetupCalls /\ \E p \in ReconfigureNumbers : disableButton(p)
    \/ /\ calls < MaxSetupCalls
       /\ \E n \in ReconfigureNumbers, pc \in Percents,
             cb \in ReconfigureCallbacks, bs \in ReconfigureStates,
             m \in ReconfigureModes :
             configure_input(n, pc, cb, bs, m)
    \/ \E tv \in [Pads -> Baselines] : begin(tv)
    \/ \E fv \in [Pads -> FilteredValues] : filter_read_cb(fv)
    \/ \E t \in ClockReadings : dispatch_callbacks(t)

SpecReconfigure == Init /\ [][NextReconfigure]_vars

\* the clock readings still to come
LaterReadings == {t \in ClockReadings : t > now}

\* a pad held while the ticker keeps running: the application and the
\* sampler act up to the clock reading LastChange; the ticker (attached by
\* begin(), periodic) runs at every clock reading, for as long as there are
\* clock readings
NextHold ==
    \/ /\ calls < MaxHoldCalls /\ now <= LastChange
       /\ \E p \in Pads : disableButton(p)
    \/ /\ calls < MaxHoldCalls /\ now <= LastChange
       /\ \E n \in Pads, pc \in Percents, cb \in Callbacks, m \in TriggerModes :
             configure_input(n, pc, cb, LONG_PRESSED, m)
    \/ /\ now <= LastChange
       /\ \E tv \in [Pads -> Baselines] : begin(tv)
    \/ /\ now <= LastChange
       /\ \E fv \in [Pads -> FilteredValues] : filter_read_cb(fv)
    \/ \E t \in LaterReadings :
          /\ \A u \in LaterReadings : t <= u
          /\ dispatch_callbacks(t)

SpecHold ==
    /\ Init
    /\ [][NextHold]_vars
    /\ WF_vars(\E t \in ClockReadings : dispatch_callbacks(t))

(* ------------------------------ properties ---------------------------- *)
\* a step is a run of the timer handler exactly when the clock reading changes
Tick == now' # now

\* the step is the call configure_input(n, pc, cb, bs, m)
ConfigureCall(n, pc, cb, bs, m) ==
    /\ lastCall' = <<"configure_input", n>>
    /\ configure_input(n, pc, cb, bs, m)

\* the step is the call disableButton(p)
DisableCall(p) == lastCall' = <<"disableButton", p>>

\* the step is the call disableAllButtons()
DisableAllCall == lastCall' = <<"disableAllButtons">>

\* C1: on every tick, for every enabled pad in RISE mode, a callback is
\* invoked iff the state after the update is not NO_PRESS, differs from the
\* state before it and has a callback registered; that callback is the one
\* invoked.
C1_RiseDispatch ==
    [][Tick =>
         \A i \in Pads :
            (s_pad_enabled[i] /\ s_pad_trigger_mode[i] = RISE) =>
               /\ (fired'[i] # NoCb) <=>
                     /\ s_pad_state'[i] # NO_PRESS
                     /\ s_pad_state'[i] # s_pad_state[i]
                     /\ s_pad_callback[i][s_pad_state'[i]] # NoCb
               /\ fired'[i] # NoCb => fired'[i] = s_pad_callback[i][s_pad_state'[i]]
      ]_vars

\* a tick has just invoked the callback of a pad in RISE mode
C1_Witness ==
    \E i \in Pads :
       /\ s_pad_enabled[i] /\ s_pad_trigger_mode[i] = RISE
       /\ fired[i] # NoCb
       /\ s_pad_state[i] = MEDIUM_PRESSED

\* C2: on every tick, for every enabled pad in FALL mode, a callback is
\* invoked iff the state after the update is NO_PRESS, the state before it
\* was not and has a callback registered; that callback is the one invoked.
C2_FallDispatch ==
    [][Tick =>
         \A i \in Pads :
            (s_pad_enabled[i] /\ s_pad_trigger_mode[i] = FALL) =>
               /\ (fired'[i] # NoCb) <=>
                     /\ s_pad_state'[i] = NO_PRESS
                     /\ s_pad_state[i] # NO_PRESS
                     /\ s_pad_callback[i][s_pad_state[i]] # NoCb
               /\ fired'[i] # NoCb => fired'[i] = s_pad_callback[i][s_pad_state[i]]
      ]_vars

\* a tick has just invoked the callback of a pad in FALL mode, on its release
C2_Witness ==
    \E i \in Pads :
       /\ s_pad_enabled[i] /\ s_pad_trigger_mode[i] = FALL
       /\ fired[i] # NoCb
       /\ s_pad_state[i] = NO_PRESS
       /\ s_pad_instantaneous_state[i] = NOT_PRESSED

\* C3: under any interleaving of ticks with configure_input, disableButton
\* and calibrate_thresholds, the state of a pad never goes from a higher
\* class to a lower one (LONG > MEDIUM > SHORT > NO_PRESS) unless a tick
\* read the pad not pressed.  Every lowering happens in one step, so: a step
\* that lowers the state is a tick that reads the pad NOT_PRESSED.
C3_ClassNeverRegresses ==
    [][\A i \in Pads :
          s_pad_state'[i] < s_pad_state[i] =>
             /\ Tick
             /\ s_pad_enabled[i]
             /\ s_pad_instantaneous_state'[i] = NOT_PRESSED
      ]_vars

\* what does hold: a tick lowers the state of a pad only by reading it not
\* pressed (the lowering steps that remain are configure_input and disable)
TickNeverRegresses ==
    [][\A i \in Pads :
          (Tick /\ s_pad_state'[i] < s_pad_state[i]) =>
             s_pad_enabled[i] /\ s_pad_instantaneous_state'[i] = NOT_PRESSED
      ]_vars

\* C4: in RISE mode, during one continuous press (consecutive ticks all
\* reading pressed), the callback of a class fires once, on the tick that
\* enters the class, and callbacks of different classes fire in increasing
\* order: a tick invokes a callback only for a class above every class a
\* callback was invoked for since the pad was last read not pressed.
C4_RiseFiresOncePerPress ==
    [][Tick =>
         \A i \in Pads :
            (s_pad_enabled[i] /\ s_pad_trigger_mode[i] = RISE /\ fired'[i] # NoCb) =>
               s_pad_state'[i] > maxFired[i]
      ]_vars

\* what does hold: in RISE mode a tick invokes a callback only when it
\* raises the state of the pad
RiseFiresOnlyOnEntry ==
    [][Tick =>
         \A i \in Pads :
            (s_pad_enabled[i] /\ s_pad_trigger_mode[i] = RISE /\ fired'[i] # NoCb) =>
               s_pad_state'[i] > s_pad_state[i]
      ]_vars

\* C5: in FALL mode no callback is invoked on a tick that reads the pad
\* pressed; a callback is invoked only on a tick that reads it not pressed,
\* for the state held before that tick, at most once per press, and only if
\* some tick of the press computed an elapsed time of at least
\* SHORT_THRESHOLD_MS.
C5_FallFiresOnceOnRelease ==
    [][Tick =>
         \A i \in Pads :
            (s_pad_enabled[i] /\ s_pad_trigger_mode[i] = FALL) =>
               /\ s_pad_instantaneous_state'[i] = PRESSED => fired'[i] = NoCb
               /\ fired'[i] # NoCb =>
                     /\ s_pad_instantaneous_state'[i] = NOT_PRESSED
                     /\ s_pad_state[i] # NO_PRESS
                     /\ fired'[i] = s_pad_callback[i][s_pad_state[i]]
                     /\ sawShort[i]
                     /\ fallFires[i] = 0
               /\ fallFires'[i] <= 1
      ]_vars

\* a pad in FALL mode was held into MEDIUM_PRESSED with no callback invoked,
\* and the tick that read its release has just invoked one
C5_Witness ==
    \E i \in Pads :
       /\ s_pad_enabled[i] /\ s_pad_trigger_mode[i] = FALL
       /\ fired[i] # NoCb
       /\ fallFires[i] = 1
       /\ s_pad_instantaneous_state[i] = NOT_PRESSED
       /\ s_pad_callback[i][MEDIUM_PRESSED] # NoCb
       /\ s_pad_callback[i][SHORT_PRESSED] = NoCb
       /\ s_pad_callback[i][LONG_PRESSED] = NoCb

\* every element of the static arrays that belongs to pad p
PadFields(p) ==
    <<s_pad_threshold_percent[p], s_pad_enabled[p], s_pad_is_pressed[p],
      s_pad_filtered_value[p], s_pad_threshold[p], s_pad_callback[p],
      s_pad_state[p], s_pad_instantaneous_state[p],
      s_pad_initial_press_time[p], s_pad_trigger_mode[p]>>

\* C6: configure_input with input_number outside 0..TOUCH_PAD_MAX-1 reports
\* InvalidChannel and leaves every pad's configuration and runtime state
\* unchanged.
C6_InvalidChannelRejected ==
    [][\A n \in InputNumbers \ Pads :
          lastCall' = <<"configure_input", n>> =>
             /\ error' = "InvalidChannel"
             /\ \A p \in Pads : PadFields(p)' = PadFields(p)
      ]_vars

\* C7: configure_input on a valid pad enables it, stores the callback under
\* the given state and leaves the callbacks of the pad's other states as
\* they are, sets the pad's one trigger mode, and changes nothing of any
\* other pad.
C7_ConfigureFrame ==
    [][\A n \in Pads, pc \in Percents, cb \in Callbacks \cup {NoCb},
          bs \in ConfigStates, m \in TriggerModes :
          ConfigureCall(n, pc, cb, bs, m) =>
             /\ s_pad_enabled'[n]
             /\ s_pad_callback'[n][bs] = cb
             /\ \A s \in ButtonStates \ {bs} :
                   s_pad_callback'[n][s] = s_pad_callback[n][s]
             /\ s_pad_trigger_mode'[n] = m
             /\ \A j \in Pads \ {n} : PadFields(j)' = PadFields(j)
      ]_vars

\* a pad holds callbacks for two states, registered by two calls, and a tick
\* has just invoked one of them under FALL, the pad's one trigger mode
C7_Witness ==
    \E i \in Pads :
       /\ s_pad_enabled[i]
       /\ s_pad_callback[i][SHORT_PRESSED] # NoCb
       /\ s_pad_callback[i][LONG_PRESSED] # NoCb
       /\ s_pad_trigger_mode[i] = FALL
       /\ fired[i] # NoCb
       /\ \E j \in Pads \ {i} : ~s_pad_enabled[j]

\* what the specification calls inert, for the fields disableButton is said
\* to reset
Inert(p) ==
    /\ ~s_pad_enabled[p]
    /\ \A s \in ButtonStates : s_pad_callback[p][s] = NoCb
    /\ s_pad_state[p] = NO_PRESS
    /\ s_pad_instantaneous_state[p] = NOT_PRESSED

\* C8: after disableButton(p), called in any reachable state, pad p is
\* disabled, has no callback, is in state NO_PRESS and its instantaneous
\* state is NOT_PRESSED; disableAllButtons establishes this for every pad.
C8_DisableResets ==
    [][/\ \A p \in Pads : DisableCall(p) => Inert(p)'
       /\ DisableAllCall => \A p \in Pads : Inert(p)'
      ]_vars

\* what does hold: disable clears the enabled flag, the callbacks and the
\* state; the instantaneous state, press time and threshold stay as they were
DisableKeepsRuntime ==
    [][\A p \in Pads :
          DisableCall(p) =>
             /\ ~s_pad_enabled'[p]
             /\ \A s \in ButtonStates : s_pad_callback'[p][s] = NoCb
             /\ s_pad_state'[p] = NO_PRESS
             /\ s_pad_instantaneous_state'[p] = s_pad_instantaneous_state[p]
             /\ s_pad_initial_press_time'[p] = s_pad_initial_press_time[p]
             /\ s_pad_threshold'[p] = s_pad_threshold[p]
      ]_vars

\* pad p as the constructor leaves it.  s_pad_threshold_percent is left out:
\* it is read only for an enabled pad, and configure_input writes it when it
\* enables one.  s_pad_filtered_value is the sampler's.
Fresh(p) ==
    /\ ~s_pad_enabled[p]
    /\ ~s_pad_is_pressed[p]
    /\ s_pad_threshold[p] = threshold_inactive
    /\ \A s \in ButtonStates : s_pad_callback[p][s] = NoCb
    /\ s_pad_state[p] = NO_PRESS
    /\ s_pad_instantaneous_state[p] = PRESSED
    /\ s_pad_initial_press_time[p] = 0
    /\ s_pad_trigger_mode[p] = RISE

\* C9: configure_input(p, 50, cb, SHORT_PRESSED, RISE) followed at once by
\* disableButton(p) leaves pad p as a freshly initialised pad, in every field
\* a later operation or tick can read.
C9_RoundTripFresh ==
    [][\A p \in Pads :
          (/\ lastCall = <<"configure_input", p>>
           /\ s_pad_threshold_percent[p] = 50
           /\ s_pad_callback[p][SHORT_PRESSED] # NoCb
           /\ s_pad_trigger_mode[p] = RISE
           /\ DisableCall(p)) => Fresh(p)'
      ]_vars

\* C10: calibrate_thresholds sets the threshold of every enabled pad to
\* floor(baseline * percent / 100), exactly, for percent in 0..100 and every
\* 16-bit baseline; it leaves the thresholds of disabled pads as they are;
\* and calibrating again with the same baselines gives the same thresholds.
C10_CalibrateExact ==
    [][\A tv \in [Pads -> CalBaselines] :
          calibrate_thresholds(tv) =>
             /\ \A i \in Pads :
                   /\ (s_pad_enabled[i] /\ s_pad_threshold_percent[i] <= 100) =>
                         s_pad_threshold'[i] =
                            (tv[i] * s_pad_threshold_percent[i]) \div 100
                   /\ ~s_pad_enabled[i] => s_pad_threshold'[i] = s_pad_threshold[i]
             /\ Calibrated(s_pad_threshold', s_pad_enabled',
                           s_pad_threshold_percent', tv) = s_pad_threshold'
      ]_vars

\* calibrate_thresholds has just run: an enabled pad at 100 percent holds
\* the largest reading, a disabled pad keeps the threshold floor(201 * 50 / 100)
C10_Witness ==
    \E i, j \in Pads :
       /\ s_pad_enabled[i] /\ s_pad_threshold_percent[i] = 100
       /\ s_pad_threshold[i] = 65535
       /\ ~s_pad_enabled[j] /\ s_pad_threshold[j] = 100
       /\ lastCall = <<"none">>

\* the step just taken was a run of the timer handler
Ticked == lastCall = <<"dispatch_callbacks">>

\* C11: no tick changes the state, the instantaneous state or the press time
\* of a disabled pad, and no callback is invoked for it, whatever its
\* filtered value is relative to its threshold.
C11_DisabledInert ==
    [][Tick =>
         \A i \in Pads :
            ~s_pad_enabled[i] =>
               /\ s_pad_state'[i] = s_pad_state[i]
               /\ s_pad_instantaneous_state'[i] = s_pad_instantaneous_state[i]
               /\ s_pad_initial_press_time'[i] = s_pad_initial_press_time[i]
               /\ fired'[i] = NoCb
      ]_vars

\* a tick has just run over a disabled pad that holds a calibrated threshold
\* and whose last sample is below it
C11_Witness ==
    \E i \in Pads :
       /\ Ticked
       /\ ~s_pad_enabled[i]
       /\ s_pad_threshold[i] = 100
       /\ s_pad_filtered_value[i] = 80
       /\ s_pad_state[i] = NO_PRESS

\* C12: after configure_input (waitForRelease defaulting to true) on a pad
\* that reads pressed, no callback is invoked for that pad until a tick has
\* read it not pressed: no tick that still reads it pressed invokes one.
C12_WaitForRelease ==
    [][Tick =>
         \A i \in Pads :
            (awaitRelease[i] /\ s_pad_instantaneous_state'[i] = PRESSED) =>
               fired'[i] = NoCb
      ]_vars

\* the classes of the table whose minimum time the elapsed time has reached
Qualifying(elapsed) ==
    {c \in {SHORT_PRESSED, MEDIUM_PRESSED, LONG_PRESSED} :
        BUTTON_THRESHOLD_TIMES_MS(c) <= elapsed}

Highest(classes) == CHOOSE c \in classes : \A d \in classes : d <= c

\* C13: on a tick that reads a pad pressed that the tick before read
\* pressed, the state assigned is the highest class whose minimum time is at
\* most the elapsed time, boundaries included (SHORT from 50, MEDIUM from
\* 300, LONG from 2000), and, the elapsed time having grown since the tick
\* before, it is not below the state that tick left.
C13_HighestQualifyingClass ==
    [][Tick =>
         \A i \in Pads :
            (/\ s_pad_enabled[i]
             /\ s_pad_instantaneous_state[i] = PRESSED
             /\ s_pad_instantaneous_state'[i] = PRESSED) =>
               /\ Qualifying(now' - s_pad_initial_press_time[i]) # {} =>
                     s_pad_state'[i] =
                        Highest(Qualifying(now' - s_pad_initial_press_time[i]))
               /\ s_pad_state'[i] >= s_pad_state[i]
      ]_vars

\* a tick found a pad pressed exactly MEDIUM_THRESHOLD_MS after the tick
\* that saw its press begin, and has put it in MEDIUM_PRESSED
C13_Witness ==
    \E i \in Pads :
       /\ Ticked
       /\ s_pad_enabled[i] /\ observed[i]
       /\ s_pad_instantaneous_state[i] = PRESSED
       /\ now - s_pad_initial_press_time[i] = MEDIUM_THRESHOLD_MS
       /\ s_pad_state[i] = MEDIUM_PRESSED

\* C14: the driver keeps the time of the last callback.  The query reports
\* -1 as long as no callback was invoked; after a tick that invoked one it
\* reports the time since that invocation (0 at that tick's clock reading),
\* and after a tick that invoked none, the time it reported before plus the
\* time that passed.
C14_TimeSinceLastCallback ==
    [][Tick =>
         IF \E i \in Pads : fired'[i] # NoCb
           THEN getTimeSinceLastCallback_ms' = 0
           ELSE getTimeSinceLastCallback_ms' =
                   IF getTimeSinceLastCallback_ms = -1
                     THEN -1
                     ELSE getTimeSinceLastCallback_ms + (now' - now)
      ]_vars

\* C15, as claimed: a tick that reads a pad pressed that the tick before
\* read pressed never leaves it in NO_PRESS, even when the elapsed time is
\* below SHORT_THRESHOLD_MS; NO_PRESS is the state only after a tick that
\* reads the pad not pressed.
C15_HeldNeverNoPress ==
    [][Tick =>
         \A i \in Pads :
            (/\ s_pad_enabled[i]
             /\ s_pad_instantaneous_state[i] = PRESSED
             /\ s_pad_instantaneous_state'[i] = PRESSED) =>
               s_pad_state'[i] # NO_PRESS
      ]_vars

\* C15, amended: a tick that reads a pad pressed that the tick before read
\* pressed puts it in SHORT_PRESSED or above when the elapsed time has
\* reached SHORT_THRESHOLD_MS, and below that leaves its state as it was
\* (NO_PRESS for a press just begun); a tick takes a pad from another state
\* to NO_PRESS only by reading it not pressed.
C15_HeldClassFromShortBoundary ==
    [][Tick =>
         \A i \in Pads :
            s_pad_enabled[i] =>
               /\ (/\ s_pad_instantaneous_state[i] = PRESSED
                   /\ s_pad_instantaneous_state'[i] = PRESSED) =>
                      IF now' - s_pad_initial_press_time[i] >= SHORT_THRESHOLD_MS
                        THEN s_pad_state'[i] >= SHORT_PRESSED
                        ELSE s_pad_state'[i] = s_pad_state[i]
               /\ (s_pad_state[i] # NO_PRESS /\ s_pad_state'[i] = NO_PRESS) =>
                      s_pad_instantaneous_state'[i] = NOT_PRESSED
      ]_vars

\* a tick read a pad pressed 20 ms after the tick that saw its press begin,
\* and the pad is still in NO_PRESS
C15_Witness ==
    \E i \in Pads :
       /\ Ticked
       /\ s_pad_enabled[i] /\ observed[i]
       /\ s_pad_instantaneous_state[i] = PRESSED
       /\ now - s_pad_initial_press_time[i] = 20
       /\ s_pad_state[i] = NO_PRESS

\* C16: on a tick that reads pressed a pad that the tick before read not
\* pressed, the press time is set to the clock reading of the tick, the
\* state stays NO_PRESS and no callback is invoked for the pad, in either
\* trigger mode.
C16_RisingEdge ==
    [][Tick =>
         \A i \in Pads :
            (/\ s_pad_enabled[i]
             /\ s_pad_instantaneous_state[i] = NOT_PRESSED
             /\ s_pad_instantaneous_state'[i] = PRESSED) =>
               /\ s_pad_initial_press_time'[i] = now'
               /\ s_pad_state'[i] = NO_PRESS
               /\ fired'[i] = NoCb
      ]_vars

\* a tick, not the first, has just seen the press of a pad begin; the pad
\* has a callback registered
C16_Witness ==
    \E i \in Pads :
       /\ Ticked
       /\ s_pad_enabled[i] /\ observed[i]
       /\ s_pad_instantaneous_state[i] = PRESSED
       /\ s_pad_initial_press_time[i] = now
       /\ now = 340
       /\ s_pad_state[i] = NO_PRESS
       /\ s_pad_callback[i][SHORT_PRESSED] # NoCb

\* C17: after a tick on which the filtered value of an enabled pad is not
\* below its threshold, the pad is in NO_PRESS and its instantaneous state
\* is NOT_PRESSED, whatever they were before the tick.
C17_ReleaseResets ==
    [][Tick =>
         \A i \in Pads :
            (s_pad_enabled[i] /\ ~(s_pad_filtered_value[i] < s_pad_threshold[i])) =>
               /\ s_pad_state'[i] = NO_PRESS
               /\ s_pad_instantaneous_state'[i] = NOT_PRESSED
      ]_vars

\* a pad held into LONG_PRESSED gave one sample above its threshold: the
\* tick that read it has put the pad in NO_PRESS and, the pad being in FALL
\* mode, invoked the callback of LONG_PRESSED
C17_Witness ==
    \E i \in Pads :
       /\ Ticked
       /\ s_pad_enabled[i] /\ s_pad_trigger_mode[i] = FALL
       /\ s_pad_threshold[i] = 100 /\ s_pad_filtered_value[i] = 150
       /\ s_pad_callback[i][LONG_PRESSED] # NoCb
       /\ s_pad_callback[i][SHORT_PRESSED] = NoCb
       /\ s_pad_callback[i][MEDIUM_PRESSED] = NoCb
       /\ fired[i] # NoCb
       /\ s_pad_state[i] = NO_PRESS
       /\ s_pad_instantaneous_state[i] = NOT_PRESSED

\* C18: whenever a tick leaves an enabled pad in a state other than NO_PRESS
\* (and so whenever a callback is invoked), the ticks have read the pad
\* pressed without interruption since a tick that saw the press begin, at
\* least SHORT_THRESHOLD_MS before; from the first tick after construction
\* on, and for a pad disabled and enabled again.
C18_ClassNeedsObservedPress ==
    [][Tick =>
         \A i \in Pads :
            (s_pad_enabled[i] /\ s_pad_state'[i] # NO_PRESS) =>
               /\ observed'[i]
               /\ now' - s_pad_initial_press_time'[i] >= SHORT_THRESHOLD_MS
      ]_vars

\* C20: an enabled pad whose threshold is still threshold_inactive reads
\* not pressed on every tick, whatever its filtered value: every tick leaves
\* it in NO_PRESS and invokes no callback for it, in either trigger mode.
C20_UncalibratedNeverPressed ==
    [][Tick =>
         \A i \in Pads :
            (s_pad_enabled[i] /\ s_pad_threshold[i] = threshold_inactive) =>
               /\ s_pad_instantaneous_state'[i] = NOT_PRESSED
               /\ s_pad_state'[i] = NO_PRESS
               /\ fired'[i] = NoCb
      ]_vars

\* a late tick has just run over a pad enabled after begin(), never
\* calibrated, with a callback registered and a sample of 80
C20_Witness ==
    \E i \in Pads :
       /\ Ticked
       /\ s_pad_enabled[i]
       /\ s_pad_threshold[i] = threshold_inactive
       /\ s_pad_filtered_value[i] = 80
       /\ s_pad_callback[i][SHORT_PRESSED] # NoCb
       /\ now >= LONG_THRESHOLD_MS
       /\ s_pad_state[i] = NO_PRESS

\* the ticker runs, pad i is enabled and calibrated and its sample is below
\* its threshold
Held(i) ==
    /\ event_timer
    /\ s_pad_enabled[i]
    /\ s_pad_threshold[i] # threshold_inactive
    /\ s_pad_filtered_value[i] < s_pad_threshold[i]

\* C19: if from some point on an enabled, calibrated pad reads pressed on
\* every tick, and ticks keep coming with the clock advancing, the pad
\* reaches LONG_PRESSED and a tick that reads it pressed keeps it there; in
\* RISE mode with a callback registered for LONG_PRESSED, that callback is
\* invoked.
C19_HeldReachesLong ==
    /\ \A i \in Pads : <>[]Held(i) => <>[](s_pad_state[i] = LONG_PRESSED)
    /\ \A i \in Pads :
          <>[](/\ Held(i)
               /\ s_pad_trigger_mode[i] = RISE
               /\ s_pad_callback[i][LONG_PRESSED] # NoCb)
             => <>(/\ fired[i] # NoCb
                   /\ fired[i] = s_pad_callback[i][LONG_PRESSED]
                   /\ s_pad_state[i] = LONG_PRESSED)
    /\ [][Tick =>
            \A i \in Pads :
               (/\ s_pad_enabled[i]
                /\ s_pad_state[i] = LONG_PRESSED
                /\ s_pad_instantaneous_state'[i] = PRESSED) =>
                  s_pad_state'[i] = LONG_PRESSED
         ]_vars

\* a pad whose press a tick saw begin was read pressed on every tick for
\* 2000 ms; the tick that put it in LONG_PRESSED has invoked its callback
C19_Witness ==
    \E i \in Pads :
       /\ Ticked
       /\ Held(i) /\ observed[i]
       /\ s_pad_trigger_mode[i] = RISE
       /\ now - s_pad_initial_press_time[i] >= LONG_THRESHOLD_MS
       /\ s_pad_state[i] = LONG_PRESSED
       /\ fired[i] # NoCb
       /\ fired[i] = s_pad_callback[i][LONG_PRESSED]
====
